---- MODULE Spec2Model ----
(***************************************************************************)
(* A model of OllamaContentGenerator (packages/core/src/core/              *)
(* ollamaContentGenerator.ts): the bridge from the generate-content        *)
(* vocabulary onto an OpenAI-compatible chat-completions / embeddings      *)
(* HTTP backend.                                                           *)
(*                                                                         *)
(* Text is a sequence of one-character strings, so that concatenation,     *)
(* prefix tests, trimming and line splitting are computed, not assumed.    *)
(* One behaviour of the model is one call of one operation on one bridge   *)
(* instance; every await of the code is a separate step.                   *)
(***************************************************************************)
EXTENDS Integers, Sequences, FiniteSets, TLC

VARIABLES
    baseUrl,      \* this.baseUrl
    model,        \* this.model
    op,           \* the operation that was called
    request,      \* its request argument: [model, contents]
    pc,           \* where the call stands
    net,          \* the responses the backend may give during this call
    http,         \* the HTTP calls issued so far, in order
    responses,    \* the responses received so far, in order
    result,       \* what the caller got: a value, an error, or nothing yet
    texts,        \* embedContent: the flattened texts
    embeddings,   \* embedContent: the embeddings collected so far
    script,       \* generateContentStream: the lines the backend streams
    wire,         \* generateContentStream: the bytes of the response body
    sent,         \* generateContentStream: how many of them the transport delivered
    split,        \* generateContentStream: a chunk has ended inside a line
    reader,       \* generateContentStream: the state of response.body's reader
    pending,      \* generateContentStream: the TextDecoder's undecoded bytes
    buffer,       \* generateContentStream: let buffer
    lines,        \* generateContentStream: the lines of the for loop still to do
    out,          \* generateContentStream: the chunks yielded so far
    peer,         \* a second generateContentStream call in flight on the bridge
    dialog        \* ModelDialog: its state, props and the models it has set

vars == <<baseUrl, model, op, request, pc, net, http, responses, result, texts,
          embeddings, script, wire, sent, split, reader, pending, buffer, lines, out,
          peer, dialog>>

config == <<baseUrl, model>>
call == <<op, request, net>>
streamVars == <<script, wire, sent, split, reader, pending, buffer, lines, out>>
embedVars == <<texts, embeddings>>

----------------------------------------------------------------------------
(* Bounds of the model. *)

MaxTurns == 2
MaxParts == 2
MaxLines == 2

----------------------------------------------------------------------------
(* Text helpers. *)

\* The concatenation of the sequences of ss, in order.
RECURSIVE Concat(_)
Concat(ss) ==
    IF Len(ss) = 0 THEN << >>
    ELSE IF Len(ss) = 1 THEN ss[1]
    ELSE LET half == Len(ss) \div 2
         IN  Concat(SubSeq(ss, 1, half)) \o Concat(SubSeq(ss, half + 1, Len(ss)))

SeqsUpTo(S, n) == UNION {[1..k -> S] : k \in 0..n}

IsPrefixAt(s, p, i) ==
    /\ Len(s) >= i - 1 + Len(p)
    /\ \A k \in 1..Len(p) : s[i - 1 + k] = p[k]

\* String.prototype.startsWith
startsWith(s, p) == IsPrefixAt(s, p, 1)

Gemini == <<"g", "e", "m", "i", "n", "i">>
Llama3 == <<"l", "l", "a", "m", "a", "3">>
LocalUrl == <<"http://localhost:11434/v1">>

Lower == <<"a", "b", "c", "d", "e", "f", "g", "h", "i", "j", "k", "l", "m",
           "n", "o", "p", "q", "r", "s", "t", "u", "v", "w", "x", "y", "z">>
Upper == <<"A", "B", "C", "D", "E", "F", "G", "H", "I", "J", "K", "L", "M",
           "N", "O", "P", "Q", "R", "S", "T", "U", "V", "W", "X", "Y", "Z">>

\* String.prototype.toUpperCase
toUpperCase(s) ==
    [k \in 1..Len(s) |->
        IF \E i \in 1..Len(Lower) : Lower[i] = s[k]
        THEN Upper[CHOOSE i \in 1..Len(Lower) : Lower[i] = s[k]]
        ELSE s[k]]

\* A join that takes the pieces last to first.
RECURSIVE joinBackwards(_, _)
joinBackwards(ss, sep) ==
    IF ss = << >> THEN << >>
    ELSE IF Len(ss) = 1 THEN ss[1]
    ELSE joinBackwards(Tail(ss), sep) \o sep \o ss[1]

\* Array.prototype.join
RECURSIVE join(_, _)
join(ss, sep) ==
    IF ss = << >> THEN << >>
    ELSE IF Len(ss) = 1 THEN ss[1]
    ELSE ss[1] \o sep \o join(Tail(ss), sep)

----------------------------------------------------------------------------
(* Requests: Content turns and their parts. *)

\* A part with a text field, and one without (inline data, a function call).
TextPart(t) == [hasText |-> TRUE, text |-> t]
NonTextPart == [hasText |-> FALSE, text |-> << >>]

\* A role that is present, and an absent one (content.role undefined).
Role(name) == [present |-> TRUE, name |-> name]
NoRole == [present |-> FALSE, name |-> ""]

Turn(role, parts) == [role |-> role, hasParts |-> TRUE, parts |-> parts]
TurnWithoutParts(role) == [role |-> role, hasParts |-> FALSE, parts |-> << >>]

\* The three shapes request.contents takes.
ContentArray(turns) == [kind |-> "array", turns |-> turns, text |-> << >>]
ContentString(t) == [kind |-> "string", turns |-> << >>, text |-> t]
ContentSingle(turn) == [kind |-> "single", turns |-> <<turn>>, text |-> << >>]

toOpenAIRole(role) ==
    IF role = "user" THEN "user"
    ELSE IF role = "model" THEN "assistant"
    ELSE "system"

normalizeContents(contents) ==
    IF contents.kind = "array" THEN contents.turns
    ELSE IF contents.kind = "string"
    THEN <<Turn(Role("user"), <<TextPart(contents.text)>>)>>
    ELSE <<contents.turns[1]>>

\* part.text as a condition: the field is there and is not the empty string.
PartHasText(part) == part.hasText /\ part.text # << >>

\* content.role with no default: an absent role reads as no name.
roleAsGiven(content) == content.role.name

\* content.role || 'user'
RoleOrUser(content) ==
    IF content.role.present /\ content.role.name # "" THEN content.role.name
    ELSE "user"

\* the callback of parts.map in toOpenAIMessages
PartText(part) == IF PartHasText(part) THEN part.text ELSE << >>

toOpenAIMessages(contents) ==
    [i \in 1..Len(contents) |->
        LET content == contents[i]
            parts == IF content.hasParts THEN content.parts ELSE << >>
            text == join([j \in 1..Len(parts) |-> PartText(parts[j])], << >>)
        IN  [role |-> toOpenAIRole(RoleOrUser(content)), content |-> text]]

\* const model = request.model.startsWith('gemini') ? this.model : request.model
generateContentModel(requested, default) ==
    IF startsWith(requested, Gemini) THEN default ELSE requested

generateContentStreamModel(requested, default) ==
    IF startsWith(requested, Gemini) THEN default ELSE requested

\* A selection that passes every requested name through.
requestedModel(requested, default) == requested

embedContentModel(requested, default) ==
    IF startsWith(requested, Gemini) THEN default ELSE requested

----------------------------------------------------------------------------
(* HTTP. *)

\* Response.ok
Ok(resp) == resp.status >= 200 /\ resp.status <= 299

StatusText(status) ==
    CASE status = 200 -> "OK"
      [] status = 201 -> "Created"
      [] status = 404 -> "Not Found"
      [] status = 500 -> "Internal Server Error"
      [] OTHER -> ""

\* A response whose body is the text `text`; `data` is what response.json()
\* makes of it (valid = FALSE: the body is not JSON).
HttpResponse(status, text, data) ==
    [status |-> status, statusText |-> StatusText(status), text |-> text,
     hasBody |-> TRUE, data |-> data]

ErrorStatuses == {404, 500}
ErrorTexts == {"overloaded", ""}
ErrorResponses ==
    {HttpResponse(s, t, [valid |-> FALSE]) : s \in ErrorStatuses, t \in ErrorTexts}

NoResult == [kind |-> "none", message |-> << >>, value |-> << >>]
Thrown(message) == [kind |-> "error", message |-> message, value |-> << >>]
Returned(value) == [kind |-> "value", message |-> << >>, value |-> value]

PostChat(url, m, messages, stream) ==
    [url |-> url \o <<"/chat/completions">>, method |-> "POST",
     body |-> [model |-> m, messages |-> messages, stream |-> stream]]

PostEmbeddings(url, m, input) ==
    [url |-> url \o <<"/embeddings">>, method |-> "POST",
     body |-> [model |-> m, input |-> input]]

\* An error message that leaves the response body out.
statusOnlyError(resp) ==
    Thrown(<<"Ollama API error: ", ToString(resp.status)>>)

\* `Ollama API error: ${response.status} - ${errorText}`
ApiError(resp) ==
    Thrown(<<"Ollama API error: ", ToString(resp.status), " - ", resp.text>>)

----------------------------------------------------------------------------
(* generateContent *)

\* A chat completion: data.choices and data.usage.
Choice(index, content, finish) ==
    [index |-> index, message |-> [role |-> "assistant", content |-> content],
     finish_reason |-> finish]

Completion(choices) ==
    [valid |-> TRUE, choices |-> choices,
     usage |-> [prompt_tokens |-> 3, completion_tokens |-> 2, total_tokens |-> 5]]

Completions ==
    { Completion(<< >>),
      Completion(<<Choice(0, <<"h", "i">>, <<"s", "t", "o", "p">>)>>),
      Completion(<<Choice(0, <<"h", "i">>, <<"s", "t", "o", "p">>),
                   Choice(1, <<"y", "o">>, <<"l", "e", "n", "g", "t", "h">>)>>),
      Completion(<<Choice(1, << >>, <<"S", "t", "o", "p">>)>>) }

ChatResponses ==
    {HttpResponse(s, "{...}", c) : s \in {200, 201}, c \in Completions}
        \cup ErrorResponses

\* A result that takes each finish_reason as it is.
resultAsGiven(data) ==
    [candidates |->
        [i \in 1..Len(data.choices) |->
            [content |-> [role |-> "model",
                          parts |-> <<[text |-> data.choices[i].message.content]>>],
             finishReason |-> data.choices[i].finish_reason,
             index |-> data.choices[i].index]],
     usageMetadata |->
        [promptTokenCount |-> data.usage.prompt_tokens,
         candidatesTokenCount |-> data.usage.completion_tokens,
         totalTokenCount |-> data.usage.total_tokens]]

\* lines 133-147: the response built from a completion
CompletionResult(data) ==
    [candidates |->
        [i \in 1..Len(data.choices) |->
            [content |-> [role |-> "model",
                          parts |-> <<[text |-> data.choices[i].message.content]>>],
             finishReason |-> toUpperCase(data.choices[i].finish_reason),
             index |-> data.choices[i].index]],
     usageMetadata |->
        [promptTokenCount |-> data.usage.prompt_tokens,
         candidatesTokenCount |-> data.usage.completion_tokens,
         totalTokenCount |-> data.usage.total_tokens]]

\* lines 108-124: build the request and await fetch
GenerateContentFetch ==
    /\ op = "generateContent" /\ pc = "called"
    /\ http' = Append(http,
           PostChat(baseUrl, generateContentModel(request.model, model),
                    toOpenAIMessages(normalizeContents(request.contents)), FALSE))
    /\ pc' = "fetching"
    /\ UNCHANGED <<config, call, peer, dialog, responses, result, embedVars, streamVars>>

\* lines 126-150: the response arrives
GenerateContentResponse ==
    /\ op = "generateContent" /\ pc = "fetching"
    /\ \E resp \in net :
        /\ responses' = Append(responses, resp)
        /\ result' = IF ~Ok(resp) THEN ApiError(resp)
                     ELSE Returned(CompletionResult(resp.data))
    /\ pc' = "done"
    /\ UNCHANGED <<config, call, peer, dialog, http, embedVars, streamVars>>

----------------------------------------------------------------------------
(* countTokens *)

\* A count that asks the backend first.
CountTokensByCall ==
    /\ op = "countTokens" /\ pc = "called"
    /\ http' = Append(http, PostChat(baseUrl, model, << >>, FALSE))
    /\ result' = Returned([totalTokens |-> 0])
    /\ pc' = "done"
    /\ UNCHANGED <<config, call, peer, dialog, responses, embedVars, streamVars>>

\* lines 236-242
CountTokens ==
    /\ op = "countTokens" /\ pc = "called"
    /\ result' = Returned([totalTokens |-> 0])
    /\ pc' = "done"
    /\ UNCHANGED <<config, call, peer, dialog, http, responses, embedVars, streamVars>>

----------------------------------------------------------------------------
(* embedContent *)

\* An embeddings response body: {data: [{embedding: [...]}, ...]}, or one
\* without a data field.
EmbeddingData(vectors) ==
    [valid |-> TRUE, hasData |-> TRUE,
     data |-> [i \in 1..Len(vectors) |-> [embedding |-> vectors[i]]]]
NoEmbeddingData == [valid |-> TRUE, hasData |-> FALSE, data |-> << >>]
NotJson == [valid |-> FALSE]

EmbedResponses ==
    { HttpResponse(200, "{...}", EmbeddingData(<<<<1>>>>)),
      HttpResponse(200, "{...}", EmbeddingData(<<<<2, 3>>, <<1>>>>)),
      HttpResponse(200, "{...}", EmbeddingData(<< >>)),
      HttpResponse(200, "{}", NoEmbeddingData),
      HttpResponse(200, "<html>", NotJson),
      HttpResponse(500, "overloaded", NotJson),
      HttpResponse(404, "", NotJson) }

\* lines 253-262: the texts of the parts that carry text, in encounter order
RECURSIVE flattenTexts(_)
flattenTexts(contents) ==
    IF contents = << >> THEN << >>
    ELSE LET content == Head(contents)
             withText == SelectSeq(content.parts, PartHasText)
             here == IF content.hasParts
                     THEN [j \in 1..Len(withText) |-> withText[j].text]
                     ELSE << >>
         IN  here \o flattenTexts(Tail(contents))

\* A failure that hands back the embeddings collected so far.
partialResult(resp) == Returned([embeddings |-> embeddings])

\* `Ollama Embedding Error: ${response.statusText}`
EmbeddingError(resp) == Thrown(<<"Ollama Embedding Error: ", resp.statusText>>)

\* response.json() rejects when the body is not JSON
JsonError == Thrown(<<"SyntaxError">>)

\* A push that puts an empty vector where the response has none.
pushOrPlaceholder(list, data) ==
    IF data.hasData /\ Len(data.data) > 0
    THEN Append(list, [values |-> data.data[1].embedding])
    ELSE Append(list, [values |-> << >>])

\* lines 281-283
pushEmbedding(list, data) ==
    IF data.hasData /\ Len(data.data) > 0
    THEN Append(list, [values |-> data.data[1].embedding])
    ELSE list

\* lines 247-274: flatten the texts, then the first iteration up to its fetch
EmbedContentStart ==
    /\ op = "embedContent" /\ pc = "called"
    /\ LET all == flattenTexts(normalizeContents(request.contents))
       IN  /\ texts' = all
           /\ IF all = << >>
              THEN /\ result' = Returned([embeddings |-> << >>])
                   /\ pc' = "done"
                   /\ http' = http
              ELSE /\ http' = Append(http,
                          PostEmbeddings(baseUrl,
                              embedContentModel(request.model, model), all[1]))
                   /\ pc' = "fetching"
                   /\ result' = result
    /\ UNCHANGED <<config, call, peer, dialog, responses, embeddings, streamVars>>

\* lines 276-288: a response arrives; the loop goes on to the next fetch or ends
EmbedContentResponse ==
    /\ op = "embedContent" /\ pc = "fetching"
    /\ \E resp \in net :
        /\ responses' = Append(responses, resp)
        /\ IF ~Ok(resp)
           THEN /\ result' = EmbeddingError(resp)
                /\ pc' = "done"
                /\ UNCHANGED <<http, embeddings>>
           ELSE IF ~resp.data.valid
           THEN /\ result' = JsonError
                /\ pc' = "done"
                /\ UNCHANGED <<http, embeddings>>
           ELSE /\ embeddings' = pushEmbedding(embeddings, resp.data)
                /\ IF Len(http) < Len(texts)
                   THEN /\ http' = Append(http,
                               PostEmbeddings(baseUrl,
                                   embedContentModel(request.model, model),
                                   texts[Len(http) + 1]))
                        /\ pc' = "fetching"
                        /\ result' = result
                   ELSE /\ result' = Returned([embeddings |-> embeddings'])
                        /\ pc' = "done"
                        /\ http' = http
    /\ UNCHANGED <<config, call, peer, dialog, texts, streamVars>>

----------------------------------------------------------------------------
(* generateContentStream: text decoding, lines, JSON. *)

\* The bytes of the wire are the ASCII characters, written as themselves, and
\* the two bytes of U+00E9; the decoder makes characters of them.
LeadByte == "0xC3"
ContinuationByte == "0xA9"
EAcute == "U+00E9"
Replacement == "U+FFFD"

\* One byte through the decoder: the characters it gives and the lead byte
\* it keeps. `held` is the lead byte kept so far, if any.
decodeByte(held, b) ==
    IF held # << >>
    THEN IF b = ContinuationByte THEN [chars |-> <<EAcute>>, held |-> << >>]
         ELSE IF b = LeadByte THEN [chars |-> <<Replacement>>, held |-> <<b>>]
         ELSE [chars |-> <<Replacement, b>>, held |-> << >>]
    ELSE IF b = LeadByte THEN [chars |-> << >>, held |-> <<b>>]
    ELSE IF b = ContinuationByte THEN [chars |-> <<Replacement>>, held |-> << >>]
    ELSE [chars |-> <<b>>, held |-> << >>]

\* TextDecoder.decode(value, {stream: true}): the bytes go through the
\* decoder in order. With nothing held, the bytes before the first one of a
\* two-byte sequence are their own characters.
IsMultiByte(b) == b \in {LeadByte, ContinuationByte}

RECURSIVE decode(_, _)
decode(held, bytes) ==
    IF bytes = << >> THEN [chars |-> << >>, held |-> held]
    ELSE IF held = << >> /\ SelectSeq(bytes, IsMultiByte) = << >>
    THEN [chars |-> bytes, held |-> << >>]
    ELSE LET p == IF held # << >> THEN 1
                  ELSE CHOOSE i \in 1..Len(bytes) :
                           /\ IsMultiByte(bytes[i])
                           /\ \A j \in 1..(i - 1) : ~IsMultiByte(bytes[j])
             d == decodeByte(held, bytes[p])
             r == decode(d.held, SubSeq(bytes, p + 1, Len(bytes)))
         IN  [chars |-> SubSeq(bytes, 1, p - 1) \o d.chars \o r.chars,
              held |-> r.held]

\* String.prototype.split('\n')
RECURSIVE splitLines(_)
splitLines(s) ==
    IF \E i \in 1..Len(s) : s[i] = "\n"
    THEN LET i == CHOOSE k \in 1..Len(s) :
                      s[k] = "\n" /\ \A j \in 1..(k - 1) : s[j] # "\n"
         IN  <<SubSeq(s, 1, i - 1)>> \o splitLines(SubSeq(s, i + 1, Len(s)))
    ELSE <<s>>

WhiteSpace == {" ", "\t", "\r", "\n"}

\* String.prototype.trimStart, trimEnd and trim
RECURSIVE trimStart(_)
trimStart(s) ==
    IF s # << >> /\ s[1] \in WhiteSpace THEN trimStart(Tail(s)) ELSE s

RECURSIVE trimEnd(_)
trimEnd(s) ==
    IF s # << >> /\ s[Len(s)] \in WhiteSpace
    THEN trimEnd(SubSeq(s, 1, Len(s) - 1))
    ELSE s

trim(s) == trimStart(trimEnd(s))

\* String.prototype.slice(start), start counted from 0
slice(s, start) == SubSeq(s, start + 1, Len(s))

\* JavaScript values, as JSON.parse makes them.
Undefined == [t |-> "undef"]
Null == [t |-> "null"]
Bool(b) == [t |-> "bool", b |-> b]
Num(n) == [t |-> "num", n |-> n]
Str(s) == [t |-> "str", s |-> s]
Arr(e) == [t |-> "arr", e |-> e]
Obj(keys, vals) == [t |-> "obj", keys |-> keys, vals |-> vals]

Digits == <<"0", "1", "2", "3", "4", "5", "6", "7", "8", "9">>
IsDigit(c) == c \in {Digits[d] : d \in 1..Len(Digits)}
DigitValue(c) == (CHOOSE d \in 1..Len(Digits) : Digits[d] = c) - 1

SyntaxError == [ok |-> FALSE, val |-> Undefined, next |-> 0]
Parsed(val, next) == [ok |-> TRUE, val |-> val, next |-> next]

\* JSON white space inside a line
RECURSIVE skipWs(_, _)
skipWs(s, i) ==
    IF i <= Len(s) /\ s[i] \in WhiteSpace THEN skipWs(s, i + 1) ELSE i

\* The index of the quote that closes the string whose text starts at i; 0
\* when there is none or a control character comes first. (The wire of the
\* model holds no backslash: escapes are not modelled.)
RECURSIVE closingQuote(_, _)
closingQuote(s, i) ==
    IF i > Len(s) \/ s[i] \in {"\t", "\r", "\n", "\\"} THEN 0
    ELSE IF s[i] = "\"" THEN i
    ELSE closingQuote(s, i + 1)

\* The digits of an integer from i on, most significant first.
RECURSIVE digitsEnd(_, _)
digitsEnd(s, i) == IF i <= Len(s) /\ IsDigit(s[i]) THEN digitsEnd(s, i + 1) ELSE i

RECURSIVE digitsValue(_, _, _)
digitsValue(s, i, j) ==
    IF j < i THEN 0 ELSE 10 * digitsValue(s, i, j - 1) + DigitValue(s[j])

RECURSIVE parseValue(_, _)
RECURSIVE parseElements(_, _, _)
RECURSIVE parseMembers(_, _, _, _)

\* A JSON value starting at s[i] (white space skipped by the caller).
parseValue(s, i) ==
    IF i > Len(s) THEN SyntaxError
    ELSE IF s[i] = "\""
    THEN LET j == closingQuote(s, i + 1)
         IN  IF j = 0 THEN SyntaxError ELSE Parsed(Str(SubSeq(s, i + 1, j - 1)), j + 1)
    ELSE IF s[i] = "["
    THEN LET j == skipWs(s, i + 1)
         IN  IF j <= Len(s) /\ s[j] = "]" THEN Parsed(Arr(<< >>), j + 1)
             ELSE parseElements(s, j, << >>)
    ELSE IF s[i] = "{"
    THEN LET j == skipWs(s, i + 1)
         IN  IF j <= Len(s) /\ s[j] = "}" THEN Parsed(Obj(<< >>, << >>), j + 1)
             ELSE parseMembers(s, j, << >>, << >>)
    ELSE IF IsDigit(s[i])
    THEN LET j == digitsEnd(s, i)
         IN  IF s[i] = "0" /\ j > i + 1 THEN SyntaxError
             ELSE Parsed(Num(digitsValue(s, i, j - 1)), j)
    ELSE IF IsPrefixAt(s, <<"n", "u", "l", "l">>, i) THEN Parsed(Null, i + 4)
    ELSE IF IsPrefixAt(s, <<"t", "r", "u", "e">>, i) THEN Parsed(Bool(TRUE), i + 4)
    ELSE IF IsPrefixAt(s, <<"f", "a", "l", "s", "e">>, i)
    THEN Parsed(Bool(FALSE), i + 5)
    ELSE SyntaxError

\* The elements of an array from s[i] on, up to its closing bracket.
parseElements(s, i, acc) ==
    LET v == parseValue(s, i)
        j == skipWs(s, v.next)
    IN  IF ~v.ok \/ j > Len(s) THEN SyntaxError
        ELSE IF s[j] = "]" THEN Parsed(Arr(Append(acc, v.val)), j + 1)
        ELSE IF s[j] = "," THEN parseElements(s, skipWs(s, j + 1), Append(acc, v.val))
        ELSE SyntaxError

\* The members of an object from s[i] on, up to its closing brace.
parseMembers(s, i, keys, vals) ==
    LET k == IF i <= Len(s) /\ s[i] = "\"" THEN parseValue(s, i) ELSE SyntaxError
        c == skipWs(s, k.next)
        v == IF k.ok /\ c <= Len(s) /\ s[c] = ":"
             THEN parseValue(s, skipWs(s, c + 1)) ELSE SyntaxError
        j == skipWs(s, v.next)
    IN  IF ~v.ok \/ j > Len(s) THEN SyntaxError
        ELSE IF s[j] = "}"
        THEN Parsed(Obj(Append(keys, k.val.s), Append(vals, v.val)), j + 1)
        ELSE IF s[j] = ","
        THEN parseMembers(s, skipWs(s, j + 1), Append(keys, k.val.s),
                          Append(vals, v.val))
        ELSE SyntaxError

\* The value v read from s is all of s but white space.
wholeText(s, v) ==
    IF v.ok /\ skipWs(s, v.next) = Len(s) + 1 THEN v ELSE SyntaxError

\* JSON.parse: the whole text is one value
JSONparse(s) == wholeText(s, parseValue(s, skipWs(s, 1)))

----------------------------------------------------------------------------
(* generateContentStream: frames. *)

KeyChoices == <<"c", "h", "o", "i", "c", "e", "s">>
KeyDelta == <<"d", "e", "l", "t", "a">>
KeyContent == <<"c", "o", "n", "t", "e", "n", "t">>
KeyFinishReason ==
    <<"f", "i", "n", "i", "s", "h", "_", "r", "e", "a", "s", "o", "n">>
DataPrefix == <<"d", "a", "t", "a", ":", " ">>
DataDone == DataPrefix \o <<"[", "D", "O", "N", "E", "]">>

\* Reading a property of null or undefined throws a TypeError.
Nullish(v) == v.t \in {"null", "undef"}

\* v[key] of a value that is not nullish: an object's own member (the last
\* one of that name), undefined otherwise.
Get(v, key) ==
    IF v.t = "obj" /\ \E i \in 1..Len(v.keys) : v.keys[i] = key
    THEN v.vals[CHOOSE i \in 1..Len(v.keys) :
                    v.keys[i] = key /\ \A j \in (i + 1)..Len(v.keys) : v.keys[j] # key]
    ELSE Undefined

\* A test that only undefined fails.
isDefined(v) == v.t # "undef"

\* the condition `v` of an && or an if
Truthy(v) ==
    CASE v.t = "undef" -> FALSE
      [] v.t = "null" -> FALSE
      [] v.t = "bool" -> v.b
      [] v.t = "num" -> v.n # 0
      [] v.t = "str" -> v.s # << >>
      [] OTHER -> TRUE

\* v.length > 0: arrays and strings have a length; of an object it is a
\* member like any other; anything else has none.
LengthPositive(v) ==
    CASE v.t = "arr" -> Len(v.e) > 0
      [] v.t = "str" -> Len(v.s) > 0
      [] v.t = "obj" -> LET n == Get(v, <<"l", "e", "n", "g", "t", "h">>)
                        IN  n.t = "num" /\ n.n > 0
      [] OTHER -> FALSE

\* v[0] of a value with a positive length
First(v) ==
    CASE v.t = "arr" -> v.e[1]
      [] v.t = "str" -> Str(<<v.s[1]>>)
      [] OTHER -> Get(v, <<"0">>)

NoChunk == [yield |-> FALSE, chunk |-> << >>]
Yield(chunk) == [yield |-> TRUE, chunk |-> chunk]

\* lines 206-219
StreamChunk(content, finishReason) ==
    [candidates |->
        <<[content |-> [role |-> "model", parts |-> <<[text |-> content]>>],
           finishReason |-> finishReason,
           index |-> 0]>>]

\* lines 213-215: finish_reason?.toUpperCase() || undefined, of a
\* finish_reason that is nullish or a string
finishReasonOf(reason) ==
    IF Nullish(reason) \/ reason.s = << >> THEN Undefined
    ELSE Str(toUpperCase(reason.s))

\* lines 201-229: the try block for one `data: ` payload; every throw inside
\* it (JSON.parse's SyntaxError, a TypeError of a property read of null or
\* undefined or of a toUpperCase that is no function) is caught and ignored.
parsedChunk(parsed) ==
    LET data == parsed.val
        choices == Get(data, KeyChoices)
        first == First(choices)
        delta == Get(first, KeyDelta)
        content == Get(delta, KeyContent)
        reason == Get(first, KeyFinishReason)
    IN  IF ~parsed.ok \/ Nullish(data) THEN NoChunk
        ELSE IF ~(Truthy(choices) /\ LengthPositive(choices)) THEN NoChunk
        ELSE IF Nullish(first) \/ Nullish(delta) THEN NoChunk
        ELSE IF ~Truthy(content) THEN NoChunk
        ELSE IF ~Nullish(reason) /\ reason.t # "str" THEN NoChunk
        ELSE Yield(StreamChunk(content, finishReasonOf(reason)))

\* line 202: JSON.parse(trimmed.slice(6)), and the rest of the try block
frameChunk(payload) == parsedChunk(JSONparse(payload))

\* A line filter that hands the terminator on as a frame of text.
lineChunkOfDone(line) ==
    LET trimmed == trim(line)
    IN  IF trimmed = << >> THEN NoChunk
        ELSE IF trimmed = DataDone
        THEN Yield(StreamChunk(Str(slice(trimmed, 6)), Undefined))
        ELSE IF startsWith(trimmed, DataPrefix) THEN frameChunk(slice(trimmed, 6))
        ELSE NoChunk

\* lines 198-230: one line of the for loop
lineChunk(line) ==
    LET trimmed == trim(line)
    IN  IF trimmed = << >> \/ trimmed = DataDone THEN NoChunk
        ELSE IF startsWith(trimmed, DataPrefix) THEN frameChunk(slice(trimmed, 6))
        ELSE NoChunk

\* A loop that a line without a chunk ends.
stopAtLine(c, rest) ==
    IF c.yield THEN [yield |-> TRUE, chunk |-> c.chunk, rest |-> rest]
    ELSE [yield |-> FALSE, chunk |-> << >>, rest |-> << >>]

\* The for loop from its next line on, up to its first yield: the chunk
\* yielded, if any, and the lines left for when the generator is resumed.
RECURSIVE runLines(_)
afterLine(c, rest) ==
    IF c.yield THEN [yield |-> TRUE, chunk |-> c.chunk, rest |-> rest]
    ELSE runLines(rest)

runLines(todo) ==
    IF todo = << >> THEN [yield |-> FALSE, chunk |-> << >>, rest |-> << >>]
    ELSE afterLine(lineChunk(Head(todo)), Tail(todo))

----------------------------------------------------------------------------
(* generateContentStream: the call and its generator. *)

\* A loop head that keeps the last piece trimmed.
trimmedBuffer(pieces) == trim(pieces[Len(pieces)])

\* A loop head that keeps nothing of the last piece.
emptyBuffer(pieces) == << >>

\* lines 193-195: one pass of the loop head over the bytes of one read. The
\* split gives at least one piece, so pop() is its last piece.
poppedBuffer(pieces) == pieces[Len(pieces)]

readStep(held, buf, bytes) ==
    LET decoded == decode(held, bytes)
        pieces == splitLines(buf \o decoded.chars)
    IN  [held |-> decoded.held,
         buffer |-> poppedBuffer(pieces),
         lines |-> SubSeq(pieces, 1, Len(pieces) - 1)]

\* The text so far of an unfinished line is the start of a `data: ` line.
InsideDataLine(partial) ==
    LET t == trim(partial)
    IN  t # << >> /\ (startsWith(t, DataPrefix) \/ startsWith(DataPrefix, t))

NoBodyError == Thrown(<<"No response body from Ollama">>)

\* lines 157-173: build the request and await fetch
StreamFetch ==
    /\ op = "generateContentStream" /\ pc = "called"
    /\ http' = Append(http,
           PostChat(baseUrl, generateContentStreamModel(request.model, model),
                    toOpenAIMessages(normalizeContents(request.contents)), TRUE))
    /\ pc' = "fetching"
    /\ UNCHANGED <<config, call, peer, dialog, responses, result, embedVars, streamVars>>

\* lines 175-187, 233: the response arrives; the call throws, or takes the
\* body's reader and returns the generator, not yet started
StreamResponse ==
    /\ op = "generateContentStream" /\ pc = "fetching"
    /\ \E resp \in net :
        /\ responses' = Append(responses, resp)
        /\ IF ~Ok(resp)
           THEN result' = ApiError(resp) /\ pc' = "done" /\ reader' = reader
           ELSE IF ~resp.hasBody
           THEN result' = NoBodyError /\ pc' = "done" /\ reader' = reader
           ELSE /\ result' = Returned(<<"AsyncGenerator">>)
                /\ pc' = "suspendedStart"
                /\ reader' = "locked"
    /\ UNCHANGED <<config, call, peer, dialog, http, embedVars>>
    /\ UNCHANGED <<script, wire, sent, split, pending, buffer, lines, out>>

\* The generator runs the for loop from `todo` on: it stops at the first
\* yield, or leaves the loop and awaits reader.read().
RunTo(r) ==
    /\ lines' = r.rest
    /\ out' = IF r.yield THEN Append(out, r.chunk) ELSE out
    /\ pc' = IF r.yield THEN "suspendedYield" ELSE "reading"

\* The consumer asks for the next element: the generator starts (line 188),
\* or goes on after the yield of line 224.
Pull ==
    /\ op = "generateContentStream"
    /\ \/ /\ pc = "suspendedStart"
          /\ buffer' = << >>
          /\ pc' = "reading"
          /\ UNCHANGED <<lines, out>>
       \/ /\ pc = "suspendedYield"
          /\ RunTo(runLines(lines))
          /\ buffer' = buffer
    /\ UNCHANGED <<config, call, peer, dialog, http, responses, result, embedVars>>
    /\ UNCHANGED <<script, wire, sent, split, reader, pending>>

\* lines 190-231: reader.read() gives the next n bytes of the body
Read ==
    /\ op = "generateContentStream" /\ pc = "reading"
    /\ \E n \in 1..(Len(wire) - sent) :
        LET step == readStep(pending, buffer, SubSeq(wire, sent + 1, sent + n))
        IN  /\ sent' = sent + n
            /\ pending' = step.held
            /\ buffer' = step.buffer
            /\ split' = (split \/ (sent' < Len(wire) /\ InsideDataLine(step.buffer)))
            /\ RunTo(runLines(step.lines))
    /\ UNCHANGED <<config, call, peer, dialog, http, responses, result, embedVars>>
    /\ UNCHANGED <<script, wire, reader>>

\* An end of stream that takes what the buffer holds for a last line.
ReadDoneFlushing ==
    /\ op = "generateContentStream" /\ pc = "reading"
    /\ sent = Len(wire)
    /\ pc' = "completed"
    /\ reader' = "closed"
    /\ out' = IF lineChunk(buffer).yield THEN Append(out, lineChunk(buffer).chunk)
              ELSE out
    /\ buffer' = << >>
    /\ UNCHANGED <<config, call, peer, dialog, http, responses, result, embedVars>>
    /\ UNCHANGED <<script, wire, sent, split, pending, lines>>

\* lines 190-191: reader.read() reports done; the generator returns
ReadDone ==
    /\ op = "generateContentStream" /\ pc = "reading"
    /\ sent = Len(wire)
    /\ pc' = "completed"
    /\ reader' = "closed"
    /\ UNCHANGED <<config, call, peer, dialog, http, responses, result, embedVars>>
    /\ UNCHANGED <<script, wire, sent, split, pending, buffer, lines, out>>

\* line 190: reader.read() rejects, the transport having failed mid-stream.
\* No try block encloses the await (the one of lines 201-229 encloses the
\* parse of a line only), so the generator ends and the consumer's pending
\* next() rejects with the transport's error. The reader is not released.
ReadError ==
    /\ op = "generateContentStream" /\ pc = "reading"
    /\ pc' = "threw"
    /\ UNCHANGED <<config, call, peer, dialog, http, responses, result>>
    /\ UNCHANGED <<embedVars, streamVars>>

\* The consumer stops: generator.return() on the suspended generator ends it
\* where it stands. No finally block runs: the code has none.
Return ==
    /\ op = "generateContentStream"
    /\ pc \in {"suspendedStart", "suspendedYield"}
    /\ pc' = "returned"
    /\ UNCHANGED <<config, call, peer, dialog, http, responses, result>>
    /\ UNCHANGED <<embedVars, streamVars>>

----------------------------------------------------------------------------
(* The bodies the backend streams. *)

Quoted(cs) == <<"\"">> \o cs \o <<"\"">>
Member(key, json) == Quoted(key) \o <<":">> \o json

\* {"choices":[{"delta":{"content":<content>}<more>}]}
FrameJson(content, more) ==
    <<"{">> \o Member(KeyChoices,
        <<"[", "{">> \o Member(KeyDelta, <<"{">> \o Member(KeyContent, content) \o <<"}">>)
            \o more \o <<"}", "]">>) \o <<"}">>

Stop == <<"s", "t", "o", "p">>

\* {"delta":{<members>}<more>}, and {"choices":[<first>,<second>]}
ChoiceJson(members, more) ==
    <<"{">> \o Member(KeyDelta, <<"{">> \o members \o <<"}">>) \o more \o <<"}">>

ChoicesJson(choices) ==
    <<"{">> \o Member(KeyChoices, <<"[">> \o join(choices, <<",">>) \o <<"]">>)
        \o <<"}">>

TextY == Member(KeyContent, Quoted(<<"y">>))
ReasonLength ==
    <<",">> \o Member(KeyFinishReason, Quoted(<<"l", "e", "n", "g", "t", "h">>))

\* The bytes of each kind of line, without its line break.
LineBytes(kind) ==
    CASE kind = "frame" -> DataPrefix \o FrameJson(Quoted(<<"x">>), << >>)
      [] kind = "lastFrame" ->
            <<" ">> \o DataPrefix
                \o FrameJson(Quoted(<<LeadByte, ContinuationByte>>),
                             <<",">> \o Member(KeyFinishReason, Quoted(Stop)))
                \o <<"\r">>
      [] kind = "malformed" -> DataPrefix \o <<"{">> \o Quoted(KeyChoices) \o <<":", "[">>
      [] kind = "null" -> DataPrefix \o <<"n", "u", "l", "l">>
      [] kind = "done" -> DataDone
      [] kind = "blank" -> <<"\r">>
      [] kind = "emptyText" ->
            DataPrefix \o ChoicesJson(<<ChoiceJson(Member(KeyContent, Quoted(<< >>)),
                                                   ReasonLength)>>)
      [] kind = "noContent" -> DataPrefix \o ChoicesJson(<<ChoiceJson(<< >>, ReasonLength)>>)
      [] kind = "noChoices" -> DataPrefix \o ChoicesJson(<< >>)
      [] kind = "secondOnly" ->
            DataPrefix \o ChoicesJson(<<ChoiceJson(<< >>, << >>),
                                        ChoiceJson(TextY, ReasonLength)>>)
      [] kind = "twoTexts" ->
            DataPrefix \o ChoicesJson(<<ChoiceJson(TextY, ReasonLength),
                                        ChoiceJson(Member(KeyContent, Quoted(<<"x">>)),
                                                   << >>)>>)
      [] kind = "nullReason" ->
            DataPrefix \o ChoicesJson(<<ChoiceJson(TextY,
                <<",">> \o Member(KeyFinishReason, <<"n", "u", "l", "l">>))>>)

LineKinds == {"frame", "lastFrame", "malformed", "null", "done", "blank"}

\* Frames by what their choices carry.
FrameKinds ==
    {"frame", "lastFrame", "emptyText", "noContent", "noChoices", "secondOnly",
     "twoTexts", "nullReason"}

\* A body: its lines, each ended by a line break, the last one only when the
\* body is not left open.
Scripts ==
    {[kinds |-> k, open |-> o] :
        k \in SeqsUpTo(LineKinds, MaxLines), o \in BOOLEAN} \
    {[kinds |-> << >>, open |-> TRUE]}

Body(sc) ==
    LET whole == Concat([i \in 1..Len(sc.kinds) |->
                            LineBytes(sc.kinds[i]) \o <<"\n">>])
    IN  IF sc.open THEN SubSeq(whole, 1, Len(whole) - 1) ELSE whole

----------------------------------------------------------------------------
(* A second generateContentStream call on the same bridge. Its reader,
   decoder, buffer and lines are the locals of its own call (lines 184-195):
   one record of them for the call. *)

\* The second call, its fetch under way, of a backend that streams sc.
PeerCalled(sc) ==
    [pc |-> "fetching", wire |-> Body(sc), sent |-> 0, pending |-> << >>,
     buffer |-> << >>, lines |-> << >>, out |-> << >>, reader |-> "none"]

\* The for loop of generator g up to its next yield, r being what runLines
\* makes of the lines to do.
ranTo(g, r) ==
    [g EXCEPT !.lines = r.rest,
              !.out = IF r.yield THEN Append(@, r.chunk) ELSE @,
              !.pc = IF r.yield THEN "suspendedYield" ELSE "reading"]

\* A read that decodes into the buffer of the other call.
peerReadShared(g, n) ==
    LET step == readStep(g.pending, buffer, SubSeq(g.wire, g.sent + 1, g.sent + n))
    IN  ranTo([g EXCEPT !.sent = @ + n, !.pending = step.held,
                        !.buffer = step.buffer],
              runLines(step.lines))

\* lines 190-231 for generator g: reader.read() gives the next n bytes
peerRead(g, n) ==
    LET step == readStep(g.pending, g.buffer, SubSeq(g.wire, g.sent + 1, g.sent + n))
    IN  ranTo([g EXCEPT !.sent = @ + n, !.pending = step.held,
                        !.buffer = step.buffer],
              runLines(step.lines))

mainVars == <<config, call, pc, http, responses, result, embedVars, streamVars, dialog>>

\* lines 175-187: the second call's response arrives, 200 with a body
PeerResponse ==
    /\ peer.pc = "fetching"
    /\ peer' = [peer EXCEPT !.pc = "suspendedStart", !.reader = "locked"]
    /\ UNCHANGED mainVars

\* The second call's consumer asks for the next element.
PeerPull ==
    /\ \/ /\ peer.pc = "suspendedStart"
          /\ peer' = [peer EXCEPT !.buffer = << >>, !.pc = "reading"]
       \/ /\ peer.pc = "suspendedYield"
          /\ peer' = ranTo(peer, runLines(peer.lines))
    /\ UNCHANGED mainVars

PeerRead ==
    /\ peer.pc = "reading"
    /\ \E n \in 1..(Len(peer.wire) - peer.sent) : peer' = peerRead(peer, n)
    /\ UNCHANGED mainVars

\* lines 190-191 for the second call
PeerReadDone ==
    /\ peer.pc = "reading"
    /\ peer.sent = Len(peer.wire)
    /\ peer' = [peer EXCEPT !.pc = "completed", !.reader = "closed"]
    /\ UNCHANGED mainVars

\* line 190 for the second call: its reader.read() rejects
PeerReadError ==
    /\ peer.pc = "reading"
    /\ peer' = [peer EXCEPT !.pc = "threw"]
    /\ UNCHANGED mainVars

NextPeer == PeerResponse \/ PeerPull \/ PeerRead \/ PeerReadDone \/ PeerReadError

----------------------------------------------------------------------------
(* The calls of each specification. *)

TextA == <<"A">>
TextBC == <<"B", "C">>
User == Role("user")

\* Turns that differ in their role, and turns that differ in their parts.
RoleTurns ==
    {Turn(r, <<TextPart(TextA)>>) :
        r \in {User, Role("model"), Role("system"), Role("tool"), Role(""), NoRole}}

PartTurns ==
    {Turn(User, ps) :
        ps \in SeqsUpTo({TextPart(TextA), TextPart(TextBC), NonTextPart}, MaxParts)}
    \cup {TurnWithoutParts(Role("model")),
          Turn(Role("model"), <<TextPart(<< >>), TextPart(TextBC)>>)}

EmbedTurns ==
    { TurnWithoutParts(User),
      Turn(User, <<TextPart(TextA)>>),
      Turn(User, <<NonTextPart, TextPart(TextBC)>>),
      Turn(User, <<TextPart(<< >>)>>),
      Turn(Role("model"), <<TextPart(TextBC), TextPart(TextA)>>) }

ContentsOf(turns) ==
    {ContentArray(ts) : ts \in SeqsUpTo(turns, MaxTurns)}
    \cup {ContentSingle(t) : t \in turns}
    \cup {ContentString(TextBC)}

Qwen == <<"q", "w", "e", "n">>
ModelNames ==
    { Gemini, Gemini \o <<"-", "x">>, <<"g", "e", "m", "i", "n">>,
      <<"x">> \o Gemini, <<"G", "e", "m", "i", "n", "i">>, Llama3 }

StreamResponses ==
    { HttpResponse(200, "data: ...", [valid |-> FALSE]),
      [HttpResponse(200, "", [valid |-> FALSE]) EXCEPT !.hasBody = FALSE] }
    \cup ErrorResponses

Operations == {"generateContent", "generateContentStream", "countTokens", "embedContent"}

ResponsesOf(o) ==
    CASE o = "generateContent" -> ChatResponses
      [] o = "generateContentStream" -> StreamResponses
      [] o = "embedContent" -> EmbedResponses
      [] OTHER -> {}

\* The state after construction (lines 63-69) when operation o is called
\* with request req, of a backend that streams scr.
Called(url, default, o, req, scr) ==
    /\ baseUrl = url
    /\ model = default
    /\ op = o
    /\ request = req
    /\ net = ResponsesOf(o)
    /\ pc = "called"
    /\ http = << >>
    /\ responses = << >>
    /\ result = NoResult
    /\ texts = << >>
    /\ embeddings = << >>
    /\ script = scr
    /\ wire = Body(scr)
    /\ sent = 0
    /\ split = FALSE
    /\ reader = "none"
    /\ pending = << >>
    /\ buffer = << >>
    /\ lines = << >>
    /\ out = << >>

----------------------------------------------------------------------------
(* ModelDialog.tsx: the dialog that writes the model to the configuration. *)

\* The model names imported from the core package (lines 10-22). Their
\* values are not part of the component: each stands for itself.
PREVIEW_GEMINI_MODEL == "PREVIEW_GEMINI_MODEL"
PREVIEW_GEMINI_FLASH_MODEL == "PREVIEW_GEMINI_FLASH_MODEL"
PREVIEW_GEMINI_MODEL_AUTO == "PREVIEW_GEMINI_MODEL_AUTO"
DEFAULT_GEMINI_MODEL == "DEFAULT_GEMINI_MODEL"
DEFAULT_GEMINI_FLASH_MODEL == "DEFAULT_GEMINI_FLASH_MODEL"
DEFAULT_GEMINI_FLASH_LITE_MODEL == "DEFAULT_GEMINI_FLASH_LITE_MODEL"
DEFAULT_GEMINI_MODEL_AUTO == "DEFAULT_GEMINI_MODEL_AUTO"

\* An item of the list: its value, its title and its key.
Option(value, title) == [value |-> value, title |-> title, key |-> value]

\* lines 69-81
manualModelSelected(d) ==
    IF d.preferredModel \in {DEFAULT_GEMINI_MODEL, DEFAULT_GEMINI_FLASH_MODEL,
                             DEFAULT_GEMINI_FLASH_LITE_MODEL, PREVIEW_GEMINI_MODEL,
                             PREVIEW_GEMINI_FLASH_MODEL}
    THEN d.preferredModel
    ELSE ""

\* lines 96-142
mainOptions(d) ==
    IF d.isOllama
    THEN IF Len(d.ollamaModels) = 0
         THEN <<Option("loading", <<"Loading Ollama models...">>)>>
         ELSE [i \in 1..Len(d.ollamaModels) |->
                  Option(d.ollamaModels[i], <<d.ollamaModels[i]>>)]
    ELSE (IF d.shouldShowPreviewModels
          THEN <<Option(PREVIEW_GEMINI_MODEL_AUTO,
                        <<"getDisplayString", PREVIEW_GEMINI_MODEL_AUTO>>)>>
          ELSE << >>)
         \o <<Option(DEFAULT_GEMINI_MODEL_AUTO,
                     <<"getDisplayString", DEFAULT_GEMINI_MODEL_AUTO>>),
              Option("Manual",
                     IF manualModelSelected(d) # ""
                     THEN <<"Manual (", manualModelSelected(d), ")">>
                     ELSE <<"Manual">>)>>

\* lines 144-180
manualOptions(d) ==
    IF d.isOllama THEN << >>
    ELSE (IF d.shouldShowPreviewModels
          THEN <<Option(PREVIEW_GEMINI_MODEL, <<PREVIEW_GEMINI_MODEL>>),
                 Option(PREVIEW_GEMINI_FLASH_MODEL, <<PREVIEW_GEMINI_FLASH_MODEL>>)>>
          ELSE << >>)
         \o <<Option(DEFAULT_GEMINI_MODEL, <<DEFAULT_GEMINI_MODEL>>),
              Option(DEFAULT_GEMINI_FLASH_MODEL, <<DEFAULT_GEMINI_FLASH_MODEL>>),
              Option(DEFAULT_GEMINI_FLASH_LITE_MODEL,
                     <<DEFAULT_GEMINI_FLASH_LITE_MODEL>>)>>

\* line 182
options(d) == IF d.view = "main" THEN mainOptions(d) ELSE manualOptions(d)

\* Array.prototype.findIndex on the values: the first index from 0, or -1
findIndex(opts, value) ==
    IF \E i \in 1..Len(opts) : opts[i].value = value
    THEN (CHOOSE i \in 1..Len(opts) :
             /\ opts[i].value = value
             /\ \A j \in 1..(i - 1) : opts[j].value # value) - 1
    ELSE -1

\* lines 185-195
initialIndex(d) ==
    LET idx == findIndex(options(d), d.preferredModel)
        manualIdx == findIndex(options(d), "Manual")
    IN  IF idx # -1 THEN idx
        ELSE IF d.view = "main" THEN (IF manualIdx # -1 THEN manualIdx ELSE 0)
        ELSE 0

\* The dialog rendered anew (lines 256-263): the list shows options(d) with
\* the item at initialIndex highlighted.
rendered(d) == [d EXCEPT !.active = initialIndex(d)]

\* lines 198-213
handleSelect(d, m) ==
    IF m = "Manual"
    THEN rendered([d EXCEPT !.view = "manual"])
    ELSE [d EXCEPT !.written = IF d.hasConfig THEN Append(@, m) ELSE @,
                   !.mounted = FALSE,
                   !.closes = @ + 1]

\* lines 33-67: the dialog as it is mounted. getModel is what
\* config.getModel() returns; without a configuration nothing is preferred,
\* no preview model is shown and the mode is not Ollama.
Mounted(hasConfig, getModel, preview, ollama) ==
    rendered([mounted |-> TRUE,
              hasConfig |-> hasConfig,
              preferredModel |-> IF hasConfig /\ getModel # "" THEN getModel
                                 ELSE DEFAULT_GEMINI_MODEL_AUTO,
              shouldShowPreviewModels |-> hasConfig /\ preview,
              isOllama |-> hasConfig /\ ollama,
              view |-> "main",
              ollamaModels |-> << >>,
              fetch |-> IF hasConfig /\ ollama THEN "pending" ELSE "none",
              active |-> 0,
              written |-> << >>,
              closes |-> 0])

\* No dialog on the screen.
NoDialog ==
    [Mounted(FALSE, "", FALSE, FALSE) EXCEPT !.mounted = FALSE]

dialogFrame == <<config, call, pc, http, responses, result, embedVars, streamVars, peer>>

\* lines 53-59: GET /models answers with a list of models
FetchModelsLoaded ==
    /\ dialog.mounted /\ dialog.fetch = "pending"
    /\ \E models \in {<< >>, <<"llama3">>, <<"llama3", "qwen2">>} :
        dialog' = rendered([dialog EXCEPT !.ollamaModels = models, !.fetch = "loaded"])
    /\ UNCHANGED dialogFrame

\* lines 54, 56, 61-63: the answer is not ok or holds no list, or fetch throws
FetchModelsIgnored ==
    /\ dialog.mounted /\ dialog.fetch = "pending"
    /\ dialog' = [dialog EXCEPT !.fetch = "ignored"]
    /\ UNCHANGED dialogFrame

\* lines 257-262: the user moves the highlight to another item of the list
Highlight ==
    /\ dialog.mounted
    /\ \E i \in 0..(Len(options(dialog)) - 1) :
        /\ i # dialog.active
        /\ dialog' = [dialog EXCEPT !.active = i]
    /\ UNCHANGED dialogFrame

\* lines 257-262: the user confirms the highlighted item; the list calls
\* onSelect with the item's value
Select ==
    /\ dialog.mounted
    /\ dialog.active < Len(options(dialog))
    /\ dialog' = handleSelect(dialog, options(dialog)[dialog.active + 1].value)
    /\ UNCHANGED dialogFrame

\* lines 83-94
Escape ==
    /\ dialog.mounted
    /\ dialog' = IF dialog.view = "manual"
                 THEN rendered([dialog EXCEPT !.view = "main"])
                 ELSE [dialog EXCEPT !.mounted = FALSE, !.closes = @ + 1]
    /\ UNCHANGED dialogFrame

NextDialog ==
    FetchModelsLoaded \/ FetchModelsIgnored \/ Highlight \/ Select \/ Escape

----------------------------------------------------------------------------
(* The calls of each specification, continued. *)

\* No second call on the bridge, and no dialog.
NoPeer ==
    [pc |-> "none", wire |-> << >>, sent |-> 0, pending |-> << >>, buffer |-> << >>,
     lines |-> << >>, out |-> << >>, reader |-> "none"]

Alone == peer = NoPeer /\ dialog = NoDialog

Hello == ContentString(<<"h", "i">>)
NoScript == [kinds |-> << >>, open |-> FALSE]

NextGenerate == GenerateContentFetch \/ GenerateContentResponse
NextStream ==
    StreamFetch \/ StreamResponse \/ Pull \/ Read \/ ReadDone \/ ReadError \/ Return
NextEmbed == EmbedContentStart \/ EmbedContentResponse
Next == NextGenerate \/ NextStream \/ NextEmbed \/ CountTokens

\* Any operation, any model name, either configuration.
Init ==
    \E url \in {LocalUrl, <<"http://gpu:8080/v1">>}, default \in {Llama3, Qwen},
       o \in Operations, name \in ModelNames,
       c \in {Hello, ContentArray(<<Turn(NoRole, <<TextPart(TextA), TextPart(TextBC)>>)>>)},
       scr \in {[kinds |-> <<"frame", "done">>, open |-> FALSE]} :
        /\ Alone
        /\ Called(url, default, o, [model |-> name, contents |-> c], scr)

Spec == Init /\ [][Next]_vars

\* The chat operations over requests that differ in their roles.
InitRoles ==
    \E o \in {"generateContent", "generateContentStream"}, c \in ContentsOf(RoleTurns) :
        /\ Alone
        /\ Called(LocalUrl, Llama3, o, [model |-> Llama3, contents |-> c],
                  [kinds |-> <<"frame">>, open |-> FALSE])

SpecRoles == InitRoles /\ [][NextGenerate \/ NextStream]_vars

\* generateContent over requests that differ in their parts.
InitMessages ==
    \E c \in ContentsOf(PartTurns) :
        /\ Alone
        /\ Called(LocalUrl, Llama3, "generateContent", [model |-> Llama3, contents |-> c],
                  NoScript)

SpecMessages == InitMessages /\ [][NextGenerate]_vars

\* embedContent.
InitEmbed ==
    \E c \in ContentsOf(EmbedTurns) :
        /\ Alone
        /\ Called(LocalUrl, Llama3, "embedContent", [model |-> Gemini, contents |-> c],
                  NoScript)

SpecEmbed == InitEmbed /\ [][NextEmbed]_vars

\* generateContentStream over the bodies of Scripts.
InitStream ==
    \E scr \in Scripts :
        /\ Alone
        /\ Called(LocalUrl, Llama3, "generateContentStream",
                  [model |-> Gemini, contents |-> Hello], scr)

SpecStream == InitStream /\ [][NextStream]_vars

\* Any operation while a second generateContentStream call is in flight;
\* countTokens with either default model, either requested name and either
\* shape of contents.
InitPair ==
    /\ dialog = NoDialog
    /\ peer = PeerCalled([kinds |-> <<"lastFrame">>, open |-> FALSE])
    /\ \/ \E o \in Operations \ {"countTokens"} :
             Called(LocalUrl, Llama3, o, [model |-> Gemini, contents |-> Hello],
                    [kinds |-> <<"frame">>, open |-> FALSE])
       \/ \E default \in {Llama3, Qwen}, name \in {Gemini, Llama3},
             c \in {Hello, ContentArray(<<Turn(NoRole, <<TextPart(TextA)>>)>>)} :
             Called(LocalUrl, default, "countTokens", [model |-> name, contents |-> c],
                    NoScript)

SpecPair == InitPair /\ [][Next \/ NextPeer]_vars

\* generateContentStream over bodies of two frames of FrameKinds.
InitFrames ==
    \E first \in FrameKinds, second \in {"frame", "noContent"} :
        /\ Alone
        /\ Called(LocalUrl, Llama3, "generateContentStream",
                  [model |-> Gemini, contents |-> Hello],
                  [kinds |-> <<first, second>>, open |-> FALSE])

SpecFrames == InitFrames /\ [][NextStream]_vars

\* The dialog mounted in either mode, with or without a configuration.
InitDialog ==
    /\ peer = NoPeer
    /\ Called(LocalUrl, Llama3, "countTokens", [model |-> Gemini, contents |-> Hello],
              NoScript)
    /\ \E hasConfig \in BOOLEAN, preview \in BOOLEAN, ollama \in BOOLEAN,
          getModel \in {"", DEFAULT_GEMINI_MODEL_AUTO, DEFAULT_GEMINI_FLASH_MODEL,
                        PREVIEW_GEMINI_MODEL, "qwen2"} :
        dialog = Mounted(hasConfig, getModel, preview, ollama)

SpecDialog == InitDialog /\ [][NextDialog]_vars

----------------------------------------------------------------------------
(* Properties of generateContentStream, under SpecStream. *)

IsPrefix(a, b) == Len(a) <= Len(b) /\ SubSeq(b, 1, Len(a)) = a

lineYields(line) == lineChunk(line).yield

\* The chunks of a body that one read delivers whole: the chunk of each of
\* its complete lines that has one, in line order.
OneChunkYields(body) ==
    LET hits == SelectSeq(readStep(<< >>, << >>, body).lines, lineYields)
    IN  [i \in 1..Len(hits) |-> lineChunk(hits[i]).chunk]

\* C1: however the transport cuts the body into chunks, a cut inside a
\* `data: ` line or inside a character included, the generator yields the
\* chunks it yields when the body comes as one chunk: all of them once the
\* transport has reported the end, the first of them when the consumer has
\* stopped before.
C1_ChunkBoundaryInvariant ==
    /\ pc = "completed" => out = OneChunkYields(wire)
    /\ pc = "returned" => IsPrefix(out, OneChunkYields(wire))

\* A body of two frames, cut inside a `data: ` line, read to its end.
C1_CutInsideLineWitness ==
    pc = "completed" /\ split /\ Len(out) = 2

\* The lines of a body that end in a line break.
Terminated(sc) ==
    IF sc.open THEN SubSeq(sc.kinds, 1, Len(sc.kinds) - 1) ELSE sc.kinds

IsFrameKind(kind) == kind \in {"frame", "lastFrame"}

\* The delta text a frame line of each kind carries.
KindText(kind) == IF kind = "frame" THEN Str(<<"x">>) ELSE Str(<<EAcute>>)

TextsOf(chunks) ==
    [i \in 1..Len(chunks) |-> chunks[i].candidates[1].content.parts[1].text]

\* C2: a terminated `data: ` line whose payload is not JSON, or is JSON of
\* another shape, is passed over and ends nothing: read to its end, the
\* stream has yielded one chunk for each terminated frame line of the body,
\* with that line's text, in order, the frame lines after such a line
\* included.
C2_MalformedLineSkipped ==
    pc = "completed" =>
        LET frames == SelectSeq(Terminated(script), IsFrameKind)
        IN  TextsOf(out) = [i \in 1..Len(frames) |-> KindText(frames[i])]

\* A malformed or misshapen line, then a terminated frame line, and the
\* frame's chunk yielded.
C2_FrameAfterMalformedWitness ==
    /\ pc = "completed"
    /\ Len(Terminated(script)) = 2
    /\ script.kinds[1] \in {"malformed", "null"}
    /\ IsFrameKind(script.kinds[2])
    /\ Len(out) = 1

\* C3: in every terminal state of a streaming call, the consumer's early
\* return included, the reader of the response body is released.
C3_ReaderReleased ==
    pc \in {"completed", "returned"} => reader # "locked"

----------------------------------------------------------------------------
(* Properties of the error paths, under Spec. *)

NonSuccess(resp) == resp.status \notin 200..299

Mentions(message, token) == \E i \in 1..Len(message) : message[i] = token

\* C4: once the chat-completions endpoint has answered with a non-2xx status,
\* the call has failed with an error that shows the status code and the raw
\* body; generateContentStream has returned no generator, so no element was
\* produced, and nothing of a response body was taken or decoded.
C4_ChatFailureBeforeDecoding ==
    (/\ op \in {"generateContent", "generateContentStream"}
     /\ responses # << >>
     /\ NonSuccess(responses[1])) =>
        /\ pc = "done"
        /\ result.kind = "error"
        /\ Mentions(result.message, ToString(responses[1].status))
        /\ Mentions(result.message, responses[1].text)
        /\ result.value = << >>
        /\ reader = "none" /\ sent = 0 /\ out = << >>

\* generateContentStream answered with status 500 and body "overloaded".
C4_StreamSetupFailsWitness ==
    /\ op = "generateContentStream"
    /\ Len(responses) = 1
    /\ responses[1].status = 500 /\ responses[1].text = "overloaded"
    /\ result.kind = "error"

\* C7: a non-2xx response of any endpoint, the embeddings endpoint included,
\* gives the caller an error that carries the numeric status code and the
\* raw body of that response.
C7_ErrorCarriesStatusAndBody ==
    \A k \in 1..Len(responses) :
        NonSuccess(responses[k]) =>
            /\ result.kind = "error"
            /\ Mentions(result.message, ToString(responses[k].status))
            /\ Mentions(result.message, responses[k].text)

\* The model name a call of this request is to send.
EffectiveModel ==
    IF Len(request.model) >= Len(Gemini)
       /\ SubSeq(request.model, 1, Len(Gemini)) = Gemini
    THEN model
    ELSE request.model

\* C10: every HTTP call of generateContent, generateContentStream and
\* embedContent names the configured default model when the requested name
\* begins with `gemini` and the requested name otherwise, and no step of any
\* call changes the configured default or the base URL.
C10_EffectiveModel ==
    [][/\ config' = config
       /\ \A i \in 1..Len(http') : http'[i].body.model = EffectiveModel]_vars

\* embedContent asked for `gemini-x` has sent the configured default.
C10_DefaultSubstitutedWitness ==
    /\ op = "embedContent"
    /\ request.model = Gemini \o <<"-", "x">>
    /\ http # << >>
    /\ http[1].body.model = model

----------------------------------------------------------------------------
(* Properties of embedContent, under SpecEmbed. *)

\* The places <<turn, part>> of the fragments that carry a text that is not
\* empty, and their encounter order.
Fragments(turns) ==
    UNION {{<<t, p>> : p \in {q \in 1..Len(turns[t].parts) :
                                 /\ turns[t].hasParts
                                 /\ turns[t].parts[q].hasText
                                 /\ turns[t].parts[q].text # << >>}} :
           t \in 1..Len(turns)}

Earlier(a, b) == a[1] < b[1] \/ (a[1] = b[1] /\ a[2] < b[2])

Rank(place, places) == Cardinality({q \in places : Earlier(q, place)}) + 1

HasVectors(resp) ==
    resp.data.valid /\ resp.data.hasData /\ resp.data.data # << >>

\* C5: embedContent makes one embeddings call for each of the N fragments
\* that carry text (a text that is not empty), one at a time, the call of
\* fragment i + 1 after the response of call i, in turn order and then part
\* order; what it returns is the first vector of each response that has a
\* non-empty `data`, in that order, and nothing for the others.
C5_SequentialEmbeddings ==
    LET turns == normalizeContents(request.contents)
        places == Fragments(turns)
        full == SelectSeq(responses, HasVectors)
    IN  /\ Len(http) <= Len(responses) + 1
        /\ Len(http) <= Cardinality(places)
        /\ \A place \in places :
              Rank(place, places) <= Len(http) =>
                  /\ http[Rank(place, places)].url = baseUrl \o <<"/embeddings">>
                  /\ http[Rank(place, places)].body.input
                        = turns[place[1]].parts[place[2]].text
        /\ result.kind = "value" =>
              /\ Len(http) = Cardinality(places)
              /\ Len(responses) = Cardinality(places)
              /\ result.value.embeddings
                    = [i \in 1..Len(full) |-> [values |-> full[i].data.data[1].embedding]]

\* Three fragments, three calls, and one response without `data`: two
\* embeddings returned.
C5_ShorterListWitness ==
    /\ result.kind = "value"
    /\ Len(http) = 3
    /\ \E i \in 1..3 : ~HasVectors(responses[i])
    /\ Len(result.value.embeddings) = 2

\* C6: once the k-th embeddings call has been answered with a non-success
\* status, embedContent has failed: that response is the last one received,
\* no call after the k-th has been made, and the caller has an error, not
\* the embeddings of the calls before.
C6_EmbedFailsAtOnce ==
    \A k \in 1..Len(responses) :
        NonSuccess(responses[k]) =>
            /\ k = Len(responses)
            /\ Len(http) = k
            /\ pc = "done"
            /\ result.kind = "error"

\* The second of three calls fails after the first gave an embedding.
C6_SecondCallFailsWitness ==
    /\ Len(responses) = 2
    /\ NonSuccess(responses[2])
    /\ embeddings # << >>
    /\ Len(texts) = 3
    /\ result.kind = "error"

----------------------------------------------------------------------------
(* Properties of the messages, under SpecRoles and SpecMessages. *)

\* The messages of every chat call made are, turn by turn, those of the
\* request's turns, with the role `expected` gives.
RolesAre(expected(_)) ==
    \A c \in 1..Len(http) :
        LET turns == normalizeContents(request.contents)
            messages == http[c].body.messages
        IN  /\ Len(messages) = Len(turns)
            /\ \A i \in 1..Len(turns) : messages[i].role = expected(turns[i].role)

userWhenAbsent(role) ==
    IF ~role.present \/ role.name = "" \/ role.name = "user" THEN "user"
    ELSE IF role.name = "model" THEN "assistant"
    ELSE "system"

systemWhenAbsent(role) ==
    IF role.present /\ role.name = "user" THEN "user"
    ELSE IF role.present /\ role.name = "model" THEN "assistant"
    ELSE "system"

\* C8, as amended: the message of a turn has role `user` when the turn's
\* role is `user`, is absent or is the empty string, `assistant` when it is
\* `model`, and `system` for every other role; the mapping never fails.
C8_AbsentRoleIsUser == RolesAre(userWhenAbsent)

\* C8, as stated: `user` for `user`, `assistant` for `model`, `system` for
\* every other role, an absent one included.
C8_AbsentRoleIsSystem == RolesAre(systemWhenAbsent)

\* A turn without a role sent as `user`, next to a `tool` turn sent as
\* `system`.
C8_AbsentRoleWitness ==
    /\ http # << >>
    /\ request.contents.kind = "array"
    /\ Len(request.contents.turns) = 2
    /\ request.contents.turns[1].role = NoRole
    /\ request.contents.turns[2].role = Role("tool")
    /\ http[1].body.messages[1].role = "user"
    /\ http[1].body.messages[2].role = "system"

CarriesText(part) == part.hasText /\ part.text # << >>

\* The length of the texts of the first j parts.
RECURSIVE TextLength(_, _)
TextLength(parts, j) ==
    IF j = 0 THEN 0
    ELSE TextLength(parts, j - 1)
            + (IF CarriesText(parts[j]) THEN Len(parts[j].text) ELSE 0)

\* C9: a chat call carries one message for each turn of the request, message
\* i for turn i; its content is as long as the texts of the turn's parts
\* together, and the text of each part stands in it right after the texts of
\* the parts before: parts without text add nothing, a turn without parts
\* gives the empty string.
C9_MessagePerTurn ==
    \A c \in 1..Len(http) :
        LET turns == normalizeContents(request.contents)
            messages == http[c].body.messages
        IN  /\ Len(messages) = Len(turns)
            /\ \A i \in 1..Len(turns) :
                  LET parts == IF turns[i].hasParts THEN turns[i].parts ELSE << >>
                      content == messages[i].content
                  IN  /\ Len(content) = TextLength(parts, Len(parts))
                      /\ \A j \in 1..Len(parts) :
                            CarriesText(parts[j]) =>
                                SubSeq(content, TextLength(parts, j - 1) + 1,
                                       TextLength(parts, j)) = parts[j].text

\* Two turns, the first of two texts, the second of a part without text and a
\* text: "ABC" and "BC".
C9_TwoTurnsWitness ==
    /\ http # << >>
    /\ request.contents.kind = "array"
    /\ Len(request.contents.turns) = 2
    /\ request.contents.turns[1].parts = <<TextPart(TextA), TextPart(TextBC)>>
    /\ request.contents.turns[2].parts = <<NonTextPart, TextPart(TextBC)>>
    /\ http[1].body.messages[1].content = <<"A", "B", "C">>
    /\ http[1].body.messages[2].content = <<"B", "C">>

----------------------------------------------------------------------------
(* Properties of generateContent's result, under SpecMessages. *)

\* The upper-case spelling of the finish reasons a backend gives.
UpperCased(reason) ==
    CASE reason = <<"s", "t", "o", "p">> -> <<"S", "T", "O", "P">>
      [] reason = <<"S", "t", "o", "p">> -> <<"S", "T", "O", "P">>
      [] reason = <<"l", "e", "n", "g", "t", "h">> -> <<"L", "E", "N", "G", "T", "H">>

\* C11: what generateContent returns for a successful response has one
\* candidate for each choice, in the order of the choices: its role is
\* `model`, its one part is the text of the choice's message, its
\* finishReason the choice's finish_reason in upper case, its index the
\* choice's; usageMetadata has the prompt, completion and total token counts
\* of `usage`.
C11_CandidatePerChoice ==
    (op = "generateContent" /\ result.kind = "value") =>
        LET data == responses[1].data
            got == result.value
        IN  /\ Len(got.candidates) = Len(data.choices)
            /\ \A i \in 1..Len(data.choices) :
                  /\ got.candidates[i].content.role = "model"
                  /\ got.candidates[i].content.parts
                        = <<[text |-> data.choices[i].message.content]>>
                  /\ got.candidates[i].finishReason
                        = UpperCased(data.choices[i].finish_reason)
                  /\ got.candidates[i].index = data.choices[i].index
            /\ got.usageMetadata.promptTokenCount = data.usage.prompt_tokens
            /\ got.usageMetadata.candidatesTokenCount = data.usage.completion_tokens
            /\ got.usageMetadata.totalTokenCount = data.usage.total_tokens

\* Two choices, `stop` and `length`: two candidates, STOP and LENGTH.
C11_TwoChoicesWitness ==
    /\ op = "generateContent" /\ result.kind = "value"
    /\ Len(result.value.candidates) = 2
    /\ result.value.candidates[1].finishReason = <<"S", "T", "O", "P">>
    /\ result.value.candidates[2].finishReason = <<"L", "E", "N", "G", "T", "H">>
    /\ result.value.candidates[2].index = 1

----------------------------------------------------------------------------
(* Properties of the terminator line, under SpecStream. *)

NotDone(kind) == kind # "done"

\* The body without its terminated `data: [DONE]` lines.
WithoutDone(sc) ==
    [kinds |-> SelectSeq(Terminated(sc), NotDone)
                  \o (IF sc.open THEN <<sc.kinds[Len(sc.kinds)]>> ELSE << >>),
     open |-> sc.open]

\* C12: a terminated line that is `data: [DONE]` once trimmed gives no chunk
\* and no error, wherever it stands: the call that returned the generator
\* keeps its result, and the stream, read to its end, has yielded what the
\* body without these lines yields.
C12_DoneYieldsNothing ==
    /\ pc \in {"suspendedStart", "suspendedYield", "reading", "completed", "returned"}
          => result.kind = "value"
    /\ pc = "completed" => out = OneChunkYields(Body(WithoutDone(script)))

\* `data: [DONE]` before a frame and after it, and the one chunk of the frame.
C12_DoneBetweenFramesWitness ==
    /\ pc = "completed"
    /\ \E i \in 1..Len(Terminated(script)) : script.kinds[i] = "done"
    /\ \E i \in 1..Len(Terminated(script)) : IsFrameKind(script.kinds[i])
    /\ script.kinds[1] = "done"
    /\ Len(out) = 1

----------------------------------------------------------------------------
(* Properties of countTokens and of calls in flight together, under
   SpecPair. *)

\* C13: countTokens gives {totalTokens: 0} whatever its request and the
\* configuration, and makes no HTTP call, also while another call is in
\* flight on the bridge.
C13_CountTokensIsZero ==
    op = "countTokens" =>
        /\ http = << >> /\ responses = << >>
        /\ pc \in {"called", "done"}
        /\ pc = "done" => result = Returned([totalTokens |-> 0])

\* countTokens has returned in the middle of the second call's stream.
C13_CountDuringStreamWitness ==
    /\ op = "countTokens" /\ pc = "done"
    /\ request.model = Llama3 /\ model = Qwen
    /\ peer.pc = "reading" /\ peer.sent > 0 /\ peer.sent < Len(peer.wire)

----------------------------------------------------------------------------
(* Properties of the elements of the stream, under SpecFrames. *)

TextChunk(text, reason) ==
    [candidates |->
        <<[content |-> [role |-> "model", parts |-> <<[text |-> Str(text)]>>],
           finishReason |-> reason,
           index |-> 0]>>]

\* The elements a frame of each kind is to give: one when its first choice
\* has a delta text that is not empty, with that text and the first choice's
\* finish_reason in upper case, none otherwise.
ElementsOf(kind) ==
    CASE kind = "frame" -> <<TextChunk(<<"x">>, Undefined)>>
      [] kind = "lastFrame" -> <<TextChunk(<<EAcute>>, Str(<<"S", "T", "O", "P">>))>>
      [] kind = "twoTexts" ->
            <<TextChunk(<<"y">>, Str(<<"L", "E", "N", "G", "T", "H">>))>>
      [] kind = "nullReason" -> <<TextChunk(<<"y">>, Undefined)>>
      [] OTHER -> << >>

\* C14: every element of the stream has one candidate, of role `model` and
\* index 0, with one part whose text is not empty; a frame gives one element
\* when its first choice carries a delta text that is not empty and none
\* otherwise (empty or absent content, no choices, text in a later choice
\* only), never more than one; the element's finishReason is the first
\* choice's finish_reason in upper case, and absent when the frame has none.
C14_ElementPerTextFrame ==
    /\ \A i \in 1..Len(out) :
          /\ Len(out[i].candidates) = 1
          /\ out[i].candidates[1].content.role = "model"
          /\ out[i].candidates[1].index = 0
          /\ Len(out[i].candidates[1].content.parts) = 1
          /\ out[i].candidates[1].content.parts[1].text.t = "str"
          /\ out[i].candidates[1].content.parts[1].text.s # << >>
    /\ pc = "completed" =>
          out = ElementsOf(script.kinds[1]) \o ElementsOf(script.kinds[2])

\* A frame with text in both choices, then a plain frame: two elements, the
\* first with the first choice's text and LENGTH.
C14_FirstChoiceOnlyWitness ==
    /\ pc = "completed"
    /\ script.kinds = <<"twoTexts", "frame">>
    /\ Len(out) = 2
    /\ out[1].candidates[1].finishReason = Str(<<"L", "E", "N", "G", "T", "H">>)
    /\ out[2].candidates[1].finishReason = Undefined

----------------------------------------------------------------------------
(* Properties of the decode buffer, under SpecFrames. *)

\* C15: a read loses nothing. The lines the read completes, each with its
\* line break, followed by the buffer the read leaves, are the buffer it
\* found followed by the text decoded from its bytes; the lines still to do
\* are the last of these lines; the buffer it leaves holds no line break.
C15_BufferKeepsEveryByte ==
    [][sent' > sent =>
         LET bytes == SubSeq(wire, sent + 1, sent')
             whole == buffer \o decode(pending, bytes).chars
             done == readStep(pending, buffer, bytes).lines
         IN  /\ Concat([i \in 1..Len(done) |-> done[i] \o <<"\n">>]) \o buffer' = whole
             /\ \E k \in 0..Len(done) : lines' = SubSeq(done, k + 1, Len(done))
             /\ \A i \in 1..Len(buffer') : buffer'[i] # "\n"]_vars

\* A read has completed the first frame and left the start of the second
\* in the buffer.
C15_PartialLineKeptWitness ==
    /\ pc = "suspendedYield"
    /\ Len(out) = 1
    /\ buffer # << >> /\ startsWith(buffer, DataPrefix)
    /\ sent < Len(wire)

----------------------------------------------------------------------------
(* Properties of the end of the stream, under SpecStream. *)

\* C16: when the transport reports the end, the sequence ends and what the
\* buffer holds is left unprocessed: no line is still to do, each frame line
\* that ended in a line break has given its chunk, and a last line without
\* a line break, a well-formed frame included, has given none and is still
\* in the buffer.
C16_TrailingLineDiscarded ==
    pc = "completed" =>
        /\ reader = "closed"
        /\ lines = << >>
        /\ Len(out) = Len(SelectSeq(Terminated(script), IsFrameKind))
        /\ buffer = IF script.open
                    THEN decode(<< >>, LineBytes(script.kinds[Len(script.kinds)])).chars
                    ELSE << >>

\* Two frames, the second without its line break: one chunk.
C16_OpenFrameWitness ==
    /\ pc = "completed"
    /\ script.open
    /\ script.kinds = <<"frame", "frame">>
    /\ Len(out) = 1
    /\ startsWith(buffer, DataPrefix)

----------------------------------------------------------------------------
(* Properties of the failures of a streaming call, under SpecStream. *)

\* C18: a streaming call fails in one of two ways only: the call itself
\* throws before it returns the generator, or a malformed line is dropped
\* without a trace. Once the generator has been returned, no pull of the
\* next element ends in a thrown error, a failed transport read included.
C18_NoThrowOnceReturned ==
    /\ pc = "threw" => result # Returned(<<"AsyncGenerator">>)
    /\ result.kind = "error" => pc = "done" /\ reader = "none" /\ out = << >>

\* The terminated lines of a body that stand before its first `data: [DONE]`.
RECURSIVE BeforeDone(_)
BeforeDone(kinds) ==
    IF kinds = << >> \/ Head(kinds) = "done" THEN << >>
    ELSE <<Head(kinds)>> \o BeforeDone(Tail(kinds))

HasDone(sc) == \E i \in 1..Len(Terminated(sc)) : sc.kinds[i] = "done"

\* C19: `data: [DONE]` ends the stream: of a body with such a line, the
\* chunks yielded are those of the lines before the first one, and no line
\* after it gives a chunk.
C19_NothingAfterDone ==
    HasDone(script) =>
        IsPrefix(out, OneChunkYields(Body([kinds |-> BeforeDone(Terminated(script)),
                                           open |-> FALSE])))

----------------------------------------------------------------------------
(* Properties of the model dialog, under SpecDialog. *)

\* The models the dialog offers as models: the Gemini models of its two
\* lists and the models the backend has listed.
OfferedModels ==
    { PREVIEW_GEMINI_MODEL_AUTO, DEFAULT_GEMINI_MODEL_AUTO, PREVIEW_GEMINI_MODEL,
      PREVIEW_GEMINI_FLASH_MODEL, DEFAULT_GEMINI_MODEL, DEFAULT_GEMINI_FLASH_MODEL,
      DEFAULT_GEMINI_FLASH_LITE_MODEL }
    \cup {dialog.ollamaModels[i] : i \in 1..Len(dialog.ollamaModels)}

\* C20: every value the dialog writes with setModel is a model it offered as
\* a model: neither the entry `Manual` nor the placeholder `loading` is
\* ever written, in either mode, before the list of models has loaded or
\* after; and while the dialog is in the manual view after `Manual` was
\* selected, nothing has been written and the dialog has not closed.
C20_OnlyOfferedModelsWritten ==
    /\ \A i \in 1..Len(dialog.written) :
          /\ dialog.written[i] \notin {"Manual", "loading"}
          /\ dialog.written[i] \in OfferedModels
    /\ dialog.view = "manual" /\ dialog.mounted =>
          dialog.written = << >> /\ dialog.closes = 0

----------------------------------------------------------------------------
(* Properties of two streams in flight together, under SpecPair. *)

\* C17: of two generateContentStream calls in flight on one bridge, each has
\* its own reader and buffer. However their reads and pulls interleave,
\* each yields what it yields alone: all the chunks of its own body once
\* read to the end, the first of them before. A step of one call leaves the
\* reader, buffer, lines and chunks of the other as they were, and no step
\* of any operation changes the configuration.
C17_StreamsAreIndependent ==
    /\ [](/\ IsPrefix(peer.out, OneChunkYields(peer.wire))
          /\ peer.pc = "completed" => peer.out = OneChunkYields(peer.wire)
          /\ op = "generateContentStream" =>
                /\ IsPrefix(out, OneChunkYields(wire))
                /\ pc = "completed" => out = OneChunkYields(wire))
    /\ [][/\ config' = config
          /\ peer' # peer =>
                UNCHANGED <<reader, pending, buffer, lines, out, sent, pc, result>>
          /\ <<reader, pending, buffer, lines, out, sent, pc>>'
                # <<reader, pending, buffer, lines, out, sent, pc>> => peer' = peer]_vars

\* Both streams stand in the middle of a line, each with its own partial
\* line in its buffer.
C17_BothMidLineWitness ==
    /\ op = "generateContentStream"
    /\ pc = "reading" /\ buffer # << >> /\ sent < Len(wire)
    /\ peer.pc = "reading" /\ peer.buffer # << >> /\ peer.sent < Len(peer.wire)
    /\ buffer # peer.buffer
    /\ reader = "locked" /\ peer.reader = "locked"

====
